---------------------------- MODULE Spec2Model ----------------------------
(***************************************************************************)
(* The ticket-search conversational agent of src/chatbot/agent.py: the     *)
(* LangGraph pipeline router -> processor -> (loop | rephrase) -> END      *)
(* built by build_agent, and run_chat which builds and invokes it.         *)
(*                                                                         *)
(* JSON values are tagged records [t, s, n]; text is a TLA+ string whose   *)
(* characters are given by CharsOf for the operations that look inside it. *)
(* The state of a conversation thread is the AgentState dict: a record of  *)
(* its values plus the set `keys` of the keys the dict holds.              *)
(***************************************************************************)
EXTENDS Integers, Sequences, FiniteSets, TLC

\* ------------------------------------------------------------------ bounds

\* Largest explicit page number the language model is taken to propose.
MaxTargetPage == 3
\* Largest page the conversation is followed to ('next' beyond it is cut).
MaxPageNo == 6
\* Supersteps one invocation of the compiled graph may take before the
\* graph library gives up with its recursion error: run_chat passes no
\* recursion_limit, so the library's default of 25 applies.
RecursionLimit == 25
\* Longest list of tickets handed to filter_tickets_tool on its own.
MaxTickets == 2

\* ------------------------------------------------------- program constants

\* The page size written into page_params and sent to list_tickets.
PageSize == 20
\* The scan budget tested by decision_logic and check_results_node.
ScanBudget == 5

\* -------------------------------------------------------------- JSON values

JNull == [t |-> "null", s |-> "", n |-> 0]
JAbsent == [t |-> "absent", s |-> "", n |-> 0]
JStr(x) == [t |-> "str", s |-> x, n |-> 0]
JInt(i) == [t |-> "int", s |-> "", n |-> i]
JTrue == [t |-> "bool", s |-> "", n |-> 1]

\* Python truthiness of a JSON value (None and a missing key's None are false).
Truthy(j) ==
    CASE j.t = "str" -> j.s # ""
      [] j.t = "int" -> j.n # 0
      [] j.t = "bool" -> j.n = 1
      [] OTHER -> FALSE

\* isinstance(j, int): Python's bool is a subclass of int.
IsPyInt(j) == j.t \in {"int", "bool"}

\* dict.get(key): a missing key reads as None.
Get(j) == IF j.t = "absent" THEN JNull ELSE j

\* GetOr with the default dropped.
GetOr_NoDefault(j, default) == Get(j)

\* dict.get(key, default): only a missing key reads as the default.
GetOr(j, default) == IF j.t = "absent" THEN default ELSE j

\* ------------------------------------------------------------------- text

CharsOf(x) ==
    CASE x = "" -> <<>>
      [] x = "jo" -> <<"j", "o">>
      [] x = "Jo S" -> <<"J", "o", " ", "S">>
      [] x = "al" -> <<"a", "l">>
      [] x = "open" -> <<"o", "p", "e", "n">>
      [] x = "opened" -> <<"o", "p", "e", "n", "e", "d">>
      [] x = "Open" -> <<"O", "p", "e", "n">>
      [] x = "Done" -> <<"D", "o", "n", "e">>
      [] x = "vpn" -> <<"v", "p", "n">>

LowerChar(c) ==
    CASE c = "J" -> "j"
      [] c = "S" -> "s"
      [] c = "O" -> "o"
      [] c = "D" -> "d"
      [] OTHER -> c

\* str.lower()
Lower(w) == [i \in 1..Len(w) |-> LowerChar(w[i])]

RECURSIVE StripLeft(_)
StripLeft(w) == IF w # <<>> /\ Head(w) = " " THEN StripLeft(Tail(w)) ELSE w

RECURSIVE StripRight(_)
StripRight(w) ==
    IF w # <<>> /\ w[Len(w)] = " " THEN StripRight(SubSeq(w, 1, Len(w) - 1)) ELSE w

\* str.strip()
Strip(w) == StripRight(StripLeft(w))

\* Python's `a in b` on strings.
IsSubstr(a, b) ==
    \E i \in 0..(Len(b) - Len(a)) : SubSeq(b, i + 1, i + Len(a)) = a

\* ---------------------------------------------------------------- tickets

DictKeys == <<"name", "full_name", "email", "firstName">>

NoDict == [k \in {"name", "full_name", "email", "firstName"} |-> ""]

\* A ticket field: None, a bare string, a dict (a missing key and a falsy
\* value both read as ""), or a list of such fields.
FNone == [t |-> "none", s |-> "", d |-> NoDict, l |-> <<>>]
FStr(x) == [t |-> "str", s |-> x, d |-> NoDict, l |-> <<>>]
FDict(d) == [t |-> "dict", s |-> "", d |-> d, l |-> <<>>]
FList(l) == [t |-> "list", s |-> "", d |-> NoDict, l |-> l]

T1 ==
    [assignee |-> FList(<<FDict([NoDict EXCEPT !["name"] = "Jo S"])>>),
     created_by |-> FDict([NoDict EXCEPT !["email"] = "al"]),
     status |-> FDict([NoDict EXCEPT !["name"] = "Open"])]

T2 ==
    [assignee |-> FNone,
     created_by |-> FStr("al"),
     status |-> FStr("Done")]

\* The pages the collaborator API is taken to return with status 200.
Pages == {<<>>, <<T1>>, <<T2>>, <<T1, T2>>}


\* ------------------------------------------------------ filter_tickets_tool

RECURSIVE extract_names(_), ExtractEach(_)

\* extract_names(field_data): the candidate strings of a ticket field.
extract_names(f) ==
    CASE f.t = "list" -> ExtractEach(f.l)
      [] f.t = "dict" ->
            LET present == SelectSeq(DictKeys, LAMBDA k : f.d[k] # "")
            IN  [i \in 1..Len(present) |-> f.d[present[i]]]
      [] f.t = "str" -> <<f.s>>
      [] OTHER -> <<>>

\* The loop `for item in field_data: names.extend(extract_names(item))`.
ExtractEach(l) ==
    IF Len(l) = 0 THEN <<>> ELSE extract_names(Head(l)) \o ExtractEach(Tail(l))

\* "1. Check Person": no filter, or the filter text and some candidate of
\* assignee/created_by contain one another (lower-cased, stripped).
match_person(ticket, assignee_name) ==
    IF ~Truthy(assignee_name) THEN TRUE
    ELSE LET target == Strip(Lower(CharsOf(assignee_name.s)))
             all_names == extract_names(ticket.assignee) \o extract_names(ticket.created_by)
         IN  \E i \in 1..Len(all_names) :
                LET n == Strip(Lower(CharsOf(all_names[i])))
                IN  IsSubstr(target, n) \/ IsSubstr(n, target)

\* "2. Check Status": no filter, or the filter text is inside some candidate
\* of status (lower-cased; only the filter text is stripped).
match_status(ticket, status_name) ==
    IF ~Truthy(status_name) THEN TRUE
    ELSE LET target_status == Strip(Lower(CharsOf(status_name.s)))
             all_statuses == extract_names(ticket.status)
         IN  \E i \in 1..Len(all_statuses) :
                IsSubstr(target_status, Lower(CharsOf(all_statuses[i])))

\* filter_tickets_tool keeping a ticket that passes either check.
filter_tickets_tool_Either(tickets, assignee_name, status_name) ==
    SelectSeq(tickets, LAMBDA ticket :
        IF Truthy(assignee_name) /\ Truthy(status_name)
        THEN match_person(ticket, assignee_name) \/ match_status(ticket, status_name)
        ELSE match_person(ticket, assignee_name) /\ match_status(ticket, status_name))

filter_tickets_tool(tickets, assignee_name, status_name) ==
    SelectSeq(tickets, LAMBDA ticket :
        match_person(ticket, assignee_name) /\ match_status(ticket, status_name))

\* --------------------------------------------------------------- AgentState

StateKeys ==
    {"messages", "search_query", "assignee", "status", "page_params",
     "search_mode", "recursion_count", "api_data"}

NoParams == [limit |-> 0, offset |-> 0]

\* A dict holding no key; a key the dict does not hold keeps the value
\* state.get(key) reads for it.
EmptyState ==
    [keys |-> {}, messages |-> <<>>, search_query |-> JNull, assignee |-> JNull,
     status |-> JNull, page_params |-> NoParams, search_mode |-> JNull,
     recursion_count |-> 0, api_data |-> <<>>]

\* The graph library's merge of a node's returned dict into the state:
\* every channel is last-value, so a returned key replaces the old value
\* and a key not returned is left alone.
Merge(s, u) ==
    [keys |-> s.keys \cup u.keys,
     messages |-> IF "messages" \in u.keys THEN u.messages ELSE s.messages,
     search_query |-> IF "search_query" \in u.keys THEN u.search_query ELSE s.search_query,
     assignee |-> IF "assignee" \in u.keys THEN u.assignee ELSE s.assignee,
     status |-> IF "status" \in u.keys THEN u.status ELSE s.status,
     page_params |-> IF "page_params" \in u.keys THEN u.page_params ELSE s.page_params,
     search_mode |-> IF "search_mode" \in u.keys THEN u.search_mode ELSE s.search_mode,
     recursion_count |->
        IF "recursion_count" \in u.keys THEN u.recursion_count ELSE s.recursion_count,
     api_data |-> IF "api_data" \in u.keys THEN u.api_data ELSE s.api_data]

\* ------------------------------------------------------ the model's replies

TargetPages ==
    {JNull, JTrue, JStr("3")} \cup {JInt(i) : i \in (0 - 1)..MaxTargetPage}

Actions == {JNull, JStr("next"), JStr("prev"), JStr("reset")}

SearchModes == {JAbsent, JStr("single_page"), JStr("deep_scan"), JStr("bogus")}

Objects ==
    [search_query : {JAbsent, JStr("vpn")},
     assignee : {JNull, JStr(""), JStr("jo")},
     status : {JNull, JStr("open")},
     target_page : TargetPages,
     action : Actions,
     search_mode : SearchModes]

\* The object "{}".
EmptyObject ==
    [search_query |-> JAbsent, assignee |-> JAbsent, status |-> JAbsent,
     target_page |-> JAbsent, action |-> JAbsent, search_mode |-> JAbsent]

\* What the text returned by call_llama is once the code fences are removed
\* and the span from the first "{" to the last "}" is cut out: the text of
\* a JSON object, the text of another JSON value ("[]", "3"), or no JSON.
\* call_llama returns "{}" when the model call fails.
Responses ==
    {[kind |-> "object", obj |-> o] : o \in Objects \cup {EmptyObject}}
        \cup {[kind |-> "nondict", obj |-> EmptyObject],
              [kind |-> "invalid", obj |-> EmptyObject]}

\* -------------------------------------------------------------- router_node

Max(a, b) == IF a >= b THEN a ELSE b

\* state.get("page_params") or {"limit": 20, "offset": 0}
CurrentParams(state) ==
    IF "page_params" \in state.keys THEN state.page_params
    ELSE [limit |-> 20, offset |-> 0]

\* NewOffset with 'prev' not clamped at 0.
NewOffset_PrevUnclamped(current_offset, target_page, action) ==
    IF Truthy(target_page) /\ IsPyInt(target_page)
    THEN Max(0, (target_page.n - 1) * 20)
    ELSE IF action = JStr("next") THEN current_offset + 20
    ELSE IF action = JStr("prev") THEN current_offset - 20
    ELSE current_offset

\* NewOffset with the action taking priority over the explicit page.
NewOffset_ActionFirst(current_offset, target_page, action) ==
    IF action = JStr("next") THEN current_offset + 20
    ELSE IF action = JStr("prev") THEN Max(0, current_offset - 20)
    ELSE IF Truthy(target_page) /\ IsPyInt(target_page)
    THEN Max(0, (target_page.n - 1) * 20)
    ELSE current_offset

\* NewOffset with 'next' read as 'prev'.
NewOffset_NextGoesBack(current_offset, target_page, action) ==
    IF Truthy(target_page) /\ IsPyInt(target_page)
    THEN Max(0, (target_page.n - 1) * 20)
    ELSE IF action \in {JStr("next"), JStr("prev")} THEN Max(0, current_offset - 20)
    ELSE current_offset

\* "[PYTHON MATH LOGIC]": the new offset from the previous one, the reply's
\* target_page and its action.
NewOffset(current_offset, target_page, action) ==
    IF Truthy(target_page) /\ IsPyInt(target_page)
    THEN Max(0, (target_page.n - 1) * 20)
    ELSE IF action = JStr("next") THEN current_offset + 20
    ELSE IF action = JStr("prev") THEN Max(0, current_offset - 20)
    ELSE current_offset

\* SQuery without the guardrail.
SQuery_NoGuardrail(parsed) ==
    IF Truthy(Get(parsed.search_query)) THEN Get(parsed.search_query) ELSE JStr("")

\* "[GUARDRAIL] Clear search query if filters exist".
SQuery(parsed) ==
    IF Truthy(Get(parsed.assignee)) \/ Truthy(Get(parsed.status)) THEN JStr("")
    ELSE IF Truthy(Get(parsed.search_query)) THEN Get(parsed.search_query)
    ELSE JStr("")

\* The dict returned on the parse path.
RouterParsed(state, parsed) ==
    [keys |-> {"search_query", "assignee", "status", "search_mode", "page_params",
               "recursion_count", "api_data"},
     messages |-> <<>>,
     search_query |-> SQuery(parsed),
     assignee |-> Get(parsed.assignee),
     status |-> Get(parsed.status),
     search_mode |-> GetOr(parsed.search_mode, JStr("single_page")),
     page_params |->
        [limit |-> 20,
         offset |-> NewOffset(CurrentParams(state).offset, Get(parsed.target_page),
                              Get(parsed.action))],
     recursion_count |-> 0,
     api_data |-> <<>>]

\* The dict returned by the bare `except:`.
RouterFallback ==
    [keys |-> {"search_query", "search_mode", "page_params", "recursion_count"},
     messages |-> <<>>,
     search_query |-> JStr(""),
     assignee |-> JNull,
     status |-> JNull,
     search_mode |-> JStr("single_page"),
     page_params |-> [limit |-> 20, offset |-> 0],
     recursion_count |-> 0,
     api_data |-> <<>>]

\* json.loads succeeds and gives a dict; anything else raises inside the
\* try (json.loads itself, or .get on a value that is no dict).
router_node(state, response) ==
    IF response.kind = "object" THEN RouterParsed(state, response.obj)
    ELSE RouterFallback

\* ------------------------------------------------------------ list_tickets

\* What one call of list_tickets gives: the page of a 200 reply, the
\* {"error": ...} dict of another status, or an exception of the HTTP client.
ApiOutcomes ==
    {[kind |-> "ok", data |-> p] : p \in Pages}
        \cup {[kind |-> "error", data |-> <<>>], [kind |-> "raise", data |-> <<>>]}

\* page = (offset // limit) + 1
PageOf(offset, limit) == (offset \div limit) + 1

\* ------------------------------------------------------- fetch_process_node

\* The offset passed to list_tickets: the state's, or 0 on the first fetch
\* of a deep scan.
FetchOffset(state) ==
    IF state.search_mode = JStr("deep_scan") /\ state.recursion_count = 0 THEN 0
    ELSE state.page_params.offset

\* state.get("search_query") or ""
FetchQuery(state) ==
    IF Truthy(state.search_query) THEN state.search_query ELSE JStr("")

\* fetch_process_node writing the offset it fetched back into the state.
fetch_process_node_WritesOffset(state, api) ==
    [EmptyState EXCEPT
        !.keys = {"api_data", "page_params"},
        !.page_params = [limit |-> 20, offset |-> FetchOffset(state)],
        !.api_data =
            IF api.kind = "error" THEN <<>>
            ELSE IF Truthy(state.assignee) \/ Truthy(state.status)
                 THEN filter_tickets_tool(api.data, state.assignee, state.status)
                 ELSE api.data]

\* The dict returned for a call of list_tickets that returned.
fetch_process_node(state, api) ==
    [EmptyState EXCEPT
        !.keys = {"api_data"},
        !.api_data =
            IF api.kind = "error" THEN <<>>
            ELSE IF Truthy(state.assignee) \/ Truthy(state.status)
                 THEN filter_tickets_tool(api.data, state.assignee, state.status)
                 ELSE api.data]

\* ---------------------------------------------- the loop decision (two forms)

\* decision_logic looping once more, at a count equal to the budget.
decision_logic_OneMore(state) ==
    IF Len(state.api_data) > 0 THEN "rephrase"
    ELSE IF state.search_mode = JStr("deep_scan") /\ state.recursion_count <= 5 THEN "loop"
    ELSE "rephrase"

\* build_agent.decision_logic, the conditional edge wired after "processor".
decision_logic(state) ==
    IF Len(state.api_data) > 0 THEN "rephrase"
    ELSE IF state.search_mode = JStr("deep_scan") /\ state.recursion_count < 5 THEN "loop"
    ELSE "rephrase"

\* check_results_node's stop test; the function is added to no graph.
CheckResultsStops(state) ==
    Len(state.api_data) > 0 \/ state.search_mode # JStr("deep_scan")
        \/ state.recursion_count >= 5

\* check_results_node's returned dict when it does not stop.
check_results_node(state) ==
    [EmptyState EXCEPT
        !.keys = {"page_params", "recursion_count"},
        !.page_params = [limit |-> 20, offset |-> state.page_params.offset + 20],
        !.recursion_count = state.recursion_count + 1]

\* ------------------------------------------------------------ rephrase_node

HumanMessage == [role |-> "human", kind |-> "text", pages |-> 0]

\* ScanNote with the note written for every count.
ScanNote_Always(count) == count + 1

\* The pages count of scan_note, 0 for no note.
ScanNote(count) == IF count > 0 THEN count + 1 ELSE 0

\* The dict returned: the fixed "No tickets found" text, or what call_llama
\* returned for the formatting prompt (`llm`: the model's text, or the "{}"
\* of a failed call), each after the scan note.
rephrase_node(state, llm) ==
    [EmptyState EXCEPT
        !.keys = {"messages"},
        !.messages =
            <<[role |-> "ai",
               kind |-> IF Len(state.api_data) = 0 THEN "no_tickets" ELSE llm,
               pages |-> ScanNote(state.recursion_count)]>>]

\* -------------------------------------------------------------- the machine

Tids == {"default", "t1"}

VARIABLES
    saver,          \* the checkpointer of the compiled graph: thread id -> state
    cur,            \* the thread id of the invocation
    pc,             \* where the invocation is
    steps,          \* supersteps the invocation has taken
    response,       \* the text call_llama last returned to router_node
    current_offset, \* router_node's local: the offset it found in the state
    fetches,        \* the calls of list_tickets made by the invocation
    probe           \* a call of filter_tickets_tool on its own: arguments, result

vars == <<saver, cur, pc, steps, response, current_offset, fetches, probe>>

\* The state of the thread being served.
st == saver[cur]

NoResponse == [kind |-> "none", obj |-> EmptyObject]

NoProbe ==
    [called |-> FALSE, tickets |-> <<>>, assignee_name |-> JNull,
     status_name |-> JNull, result |-> <<>>]

Init ==
    /\ saver = [t \in Tids |-> EmptyState]
    /\ cur = "default"
    /\ pc = "idle"
    /\ steps = 0
    /\ response = NoResponse
    /\ current_offset = 0
    /\ fetches = <<>>
    /\ probe = NoProbe

Resting == pc \in {"idle", "done", "aborted", "raised"}

\* The input {"messages": [HumanMessage(content=message)]}.
Input == [EmptyState EXCEPT !.keys = {"messages"}, !.messages = <<HumanMessage>>]

\* agent.invoke(input, thread_id) on the compiled graph at hand: the input
\* is merged into the thread's checkpointed state and the run starts at the
\* entry point.
Invoke(tid, checkpoints) ==
    /\ saver' = [checkpoints EXCEPT ![tid] = Merge(@, Input)]
    /\ cur' = tid
    /\ pc' = "router"
    /\ steps' = 0
    /\ fetches' = <<>>
    /\ response' = NoResponse
    /\ current_offset' = 0
    /\ UNCHANGED probe

\* run_chat: build_agent() compiles a graph around a new MemorySaver, then
\* the graph is invoked on thread_id or "default".
RunChat ==
    /\ Resting
    /\ \E tid \in Tids : Invoke(tid, [t \in Tids |-> EmptyState])

\* A further invoke of one graph built by build_agent, on the default thread.
AgentInvoke ==
    /\ Resting
    /\ Invoke("default", saver)

\* The node "router" and its edge to "processor".
Router ==
    /\ pc = "router"
    /\ steps < RecursionLimit
    /\ \E r \in Responses :
        LET u == router_node(st, r)
        IN  /\ u.page_params.offset <= (MaxPageNo - 1) * PageSize
            /\ saver' = [saver EXCEPT ![cur] = Merge(@, u)]
            /\ response' = r
    /\ current_offset' = CurrentParams(st).offset
    /\ pc' = "processor"
    /\ steps' = steps + 1
    /\ UNCHANGED <<cur, fetches, probe>>

\* The node "processor" and the conditional edge decision_logic after it.
\* An exception of list_tickets is caught nowhere and ends the invocation.
Processor ==
    /\ pc = "processor"
    /\ steps < RecursionLimit
    /\ \E api \in ApiOutcomes :
        LET new == Merge(st, fetch_process_node(st, api))
            call == [offset |-> FetchOffset(st), search_query |-> FetchQuery(st),
                     count |-> st.recursion_count,
                     filters |-> Truthy(st.assignee) \/ Truthy(st.status),
                     found |-> IF api.kind = "raise" THEN 0 ELSE Len(new.api_data)]
        IN  /\ fetches' = Append(fetches, call)
            /\ IF api.kind = "raise"
               THEN pc' = "raised" /\ UNCHANGED saver
               ELSE /\ saver' = [saver EXCEPT ![cur] = new]
                    /\ pc' = IF decision_logic(new) = "loop" THEN "processor" ELSE "rephrase"
    /\ steps' = steps + 1
    /\ UNCHANGED <<cur, response, current_offset, probe>>

\* The node "rephrase" and its edge to END.
Rephrase ==
    /\ pc = "rephrase"
    /\ steps < RecursionLimit
    /\ \E llm \in {"rendered", "llama_failed"} :
        saver' = [saver EXCEPT ![cur] = Merge(@, rephrase_node(st, llm))]
    /\ pc' = "done"
    /\ steps' = steps + 1
    /\ UNCHANGED <<cur, response, current_offset, fetches, probe>>

\* The graph library's recursion limit: a node is still due after the last
\* superstep allowed, and invoke raises GraphRecursionError.
RecursionError ==
    /\ pc \in {"router", "processor", "rephrase"}
    /\ steps >= RecursionLimit
    /\ pc' = "aborted"
    /\ UNCHANGED <<saver, cur, steps, response, current_offset, fetches, probe>>

\* The service as routers/chat.py runs it: every turn is one run_chat.
Next == RunChat \/ Router \/ Processor \/ Rephrase \/ RecursionError

Spec == Init /\ [][Next]_vars

\* One compiled graph from build_agent, invoked turn after turn.
NextAgent == AgentInvoke \/ Router \/ Processor \/ Rephrase \/ RecursionError

SpecAgent == Init /\ [][NextAgent]_vars

\* The scheduling of one synchronous invocation: a step that is due is taken.
FairSpec == Spec /\ WF_vars(Router \/ Processor \/ Rephrase \/ RecursionError)

\* ------------------------------------------- filter_tickets_tool on its own

\* The fields a ticket of the collaborator API is taken to carry.
AssigneeFields ==
    {FNone, FStr("jo"), FList(<<FDict([NoDict EXCEPT !["name"] = "Jo S"])>>)}

CreatedByFields == {FNone, FStr("al"), FDict([NoDict EXCEPT !["email"] = "al"])}

StatusFields == {FNone, FStr("Done"), FDict([NoDict EXCEPT !["name"] = "Open"])}

Tickets == [assignee : AssigneeFields, created_by : CreatedByFields, status : StatusFields]

\* The lists of at most n tickets.
RECURSIVE TicketLists(_)
TicketLists(n) ==
    IF n = 0 THEN {<<>>}
    ELSE TicketLists(n - 1)
            \cup {Append(l, t) : l \in {k \in TicketLists(n - 1) : Len(k) = n - 1}, t \in Tickets}

\* The filter texts the router is taken to pass on.
AssigneeNames == {JNull, JStr(""), JStr("jo"), JStr("Jo S")}

StatusNames == {JNull, JStr("open"), JStr("opened")}

\* The tool is about to be called on some tickets with some filters.
InitFilter ==
    /\ saver = [t \in Tids |-> EmptyState]
    /\ cur = "default"
    /\ pc = "idle"
    /\ steps = 0
    /\ response = NoResponse
    /\ current_offset = 0
    /\ fetches = <<>>
    /\ probe \in [called : {FALSE}, tickets : TicketLists(MaxTickets),
                   assignee_name : AssigneeNames, status_name : StatusNames,
                   result : {<<>>}]

\* filter_tickets_tool.invoke({"tickets", "assignee_name", "status_name"}).
FilterCall ==
    /\ ~probe.called
    /\ probe' = [probe EXCEPT
                    !.called = TRUE,
                    !.result = filter_tickets_tool(probe.tickets, probe.assignee_name,
                                                   probe.status_name)]
    /\ UNCHANGED <<saver, cur, pc, steps, response, current_offset, fetches>>

SpecFilter == InitFilter /\ [][FilterCall]_vars

\* ------------------------------------------------------------------ claims

\* The offset of the thread being served, and the last reply's fields.
Offset == st.page_params.offset
ReplyPage == Get(response.obj.target_page)
ReplyAction == Get(response.obj.action)

\* The reply is a JSON object naming an integer page P >= 1.
ExplicitPage == response.kind = "object" /\ ReplyPage.t = "int" /\ ReplyPage.n >= 1

\* Every fetch of the invocation so far returned and left api_data empty.
AllFetchesEmpty ==
    /\ pc \in {"processor", "rephrase", "done", "aborted"}
    /\ Len(fetches) > 0
    /\ \A i \in 1..Len(fetches) : fetches[i].found = 0

\* The answer run_chat returns: result["messages"][-1].
Answer == st.messages[Len(st.messages)]

\* C1: in deep_scan mode with every fetched page empty, a turn fetches
\* offsets 0, 20, 40, 60, 80 in that order and never a 6th time, and then
\* ends in the responder with no tickets and a note of 5 scanned pages.
C1_DeepScanFiveFetches ==
    (st.search_mode = JStr("deep_scan") /\ AllFetchesEmpty) =>
        /\ Len(fetches) <= 5
        /\ \A i \in 1..Len(fetches) : fetches[i].offset = (i - 1) * PageSize
        /\ pc # "aborted"
        /\ pc = "done" =>
            /\ Len(fetches) = 5
            /\ Answer.kind = "no_tickets"
            /\ Answer.pages = 5

\* C2: every turn reaches the responder and END: the processor loop is
\* bounded by the scan budget and no turn is ended by the recursion error,
\* whatever the model replied and whatever the pages held.
C2_TurnReachesResponder ==
    /\ pc # "aborted"
    /\ (pc # "raised" => Len(fetches) <= ScanBudget + 1)

\* C3: once the router has run on a thread, its page_params.offset is a
\* non-negative multiple of the page size and page_params.limit is 20.
C3_OffsetIsPageMultiple ==
    \A t \in Tids :
        "page_params" \in saver[t].keys =>
            /\ saver[t].page_params.limit = PageSize
            /\ saver[t].page_params.offset >= 0
            /\ saver[t].page_params.offset % PageSize = 0

C3_Witness ==
    /\ pc = "processor"
    /\ ReplyAction = JStr("prev")
    /\ current_offset = 0
    /\ Offset = 0
    /\ "page_params" \in st.keys

\* C4: a reply with an explicit integer page P >= 1 resolves the offset to
\* (P-1)*20, for every previous offset and every action.
C4_ExplicitPageOffset ==
    ExplicitPage =>
        /\ Offset = (ReplyPage.n - 1) * PageSize
        /\ Offset >= 0

C4_Witness ==
    /\ ExplicitPage
    /\ ReplyPage.n = 3
    /\ ReplyAction = JStr("next")
    /\ current_offset = 100
    /\ Offset = 40

\* The offset the action alone gives from the previous offset o.
ActionOffset(o, action) ==
    IF action = JStr("next") THEN o + PageSize
    ELSE IF action = JStr("prev") THEN Max(0, o - PageSize)
    ELSE o

\* C5 as claimed: a reply without an integer page P >= 1 (null, 0, negative
\* or no integer) resolves the offset from the action alone.
C5_ActionAloneClaimed ==
    (response.kind = "object" /\ ~ExplicitPage) =>
        Offset = ActionOffset(current_offset, ReplyAction)

\* C5 as amended: a reply whose target_page is null, 0 or no integer (a
\* string) resolves the offset from the action alone: 'next' adds a page,
\* 'prev' takes one off and stays at 0, anything else keeps the offset;
\* a negative integer page, and the boolean true, resolve to offset 0
\* whatever the action.
C5_ActionAlone ==
    response.kind = "object" =>
        /\ (ReplyPage.t \in {"null", "str"} \/ ReplyPage = JInt(0)) =>
                Offset = ActionOffset(current_offset, ReplyAction)
        /\ ((ReplyPage.t = "int" /\ ReplyPage.n < 0) \/ ReplyPage = JTrue) =>
                Offset = 0

C5_Witness ==
    /\ response.kind = "object"
    /\ ReplyPage = JInt(0)
    /\ ReplyAction = JStr("next")
    /\ current_offset = 20
    /\ Offset = 40

\* C6: whenever an assignee or status filter is set in a thread's state its
\* search_query is empty, and every fetch made with a filter set passed an
\* empty search query to list_tickets.
C6_FiltersClearQuery ==
    /\ \A t \in Tids :
        (Truthy(saver[t].assignee) \/ Truthy(saver[t].status)) =>
            ~Truthy(saver[t].search_query)
    /\ \A i \in 1..Len(fetches) :
        fetches[i].filters => fetches[i].search_query = JStr("")

C6_Witness ==
    /\ response.kind = "object"
    /\ response.obj.search_query = JStr("vpn")
    /\ st.assignee = JStr("jo")
    /\ Len(fetches) > 0
    /\ fetches[1].filters

\* C7: after the router has run on a reply that is no JSON, the state has
\* no assignee filter, no status filter, offset 0 and mode single_page,
\* whatever it held before, and the turn is not cut short.
C7_FallbackClearsState ==
    response.kind = "invalid" =>
        /\ st.assignee = JNull
        /\ st.status = JNull
        /\ Offset = 0
        /\ st.search_mode = JStr("single_page")
        /\ pc # "aborted"

\* The reply is the object "{}".
EmptyReply == response = [kind |-> "object", obj |-> EmptyObject]

C10_ExplicitPageSingleFetch ==
    ExplicitPage =>
        /\ st.search_mode # JStr("deep_scan")
        /\ Len(fetches) <= 1
        /\ \A i \in 1..Len(fetches) : fetches[i].offset = (ReplyPage.n - 1) * PageSize

\* The router has run in the invocation.
RouterRan == response.kind # "none"

\* C11: a failure of the collaborator API during a fetch, a non-200 status
\* or an exception of the HTTP client, never ends the turn with an error:
\* the page counts as empty and a single_page turn that found nothing ends
\* with the 'No tickets found' answer.
C11_ApiFailureRecovered ==
    /\ pc # "raised"
    /\ (pc = "done" /\ st.search_mode = JStr("single_page")
            /\ fetches[Len(fetches)].found = 0) =>
        Answer.kind = "no_tickets"

\* C12: whatever the model replied, the state the router leaves is a
\* complete, schema-valid intent: search_mode is 'single_page' or
\* 'deep_scan', page_params has limit 20 and an offset >= 0, recursion_count
\* is 0, search_query is present and text, assignee and status are none or text.
C12_RouterIntentValid ==
    RouterRan =>
        /\ st.search_mode \in {JStr("single_page"), JStr("deep_scan")}
        /\ st.page_params.limit = 20
        /\ st.page_params.offset >= 0
        /\ st.recursion_count = 0
        /\ "search_query" \in st.keys
        /\ st.search_query.t = "str"
        /\ st.assignee.t \in {"null", "str"}
        /\ st.status.t \in {"null", "str"}

\* C13: the answer of a turn that ends with a non-empty result is never the
\* "{}" call_llama returns when the model call fails.
C13_NoFailurePlaceholder ==
    (pc = "done" /\ Len(st.api_data) > 0) => Answer.kind # "llama_failed"

BidirectionalMatch(filter, candidates) ==
    \E i \in 1..Len(candidates) :
        LET f == Lower(CharsOf(filter.s))
            c == Lower(CharsOf(candidates[i]))
        IN  IsSubstr(f, c) \/ IsSubstr(c, f)

\* C15: with one filter set, assignee or status alike, a ticket is kept by
\* filter_tickets_tool exactly when the filter text and some extracted
\* candidate, lower-cased, contain one another in either direction.
C15_BidirectionalMatch ==
    (probe.called /\ Len(probe.tickets) = 1) =>
        LET t == probe.tickets[1]
            a == probe.assignee_name
            s == probe.status_name
            kept == Len(probe.result) = 1
        IN  /\ (Truthy(a) /\ ~Truthy(s)) =>
                (kept <=> BidirectionalMatch(a,
                            extract_names(t.assignee) \o extract_names(t.created_by)))
            /\ (~Truthy(a) /\ Truthy(s)) =>
                (kept <=> BidirectionalMatch(s, extract_names(t.status)))

\* The positions of the tickets of the probe that pass both checks.
Passing ==
    {i \in 1..Len(probe.tickets) :
        /\ match_person(probe.tickets[i], probe.assignee_name)
        /\ match_status(probe.tickets[i], probe.status_name)}

\* C20: filter_tickets_tool returns the tickets that pass the check of every
\* filter set, each once, unaltered and in input order; a ticket with no
\* candidate for a filter that is set is dropped; with no filter set the
\* tool keeps every ticket and the executor hands the page on as fetched.
C20_FilterKeepsMatches ==
    probe.called =>
        LET in == probe.tickets
            out == probe.result
            a == probe.assignee_name
            s == probe.status_name
        IN  /\ Len(out) = Cardinality(Passing)
            /\ \A k \in 1..Len(out) :
                \E i \in Passing :
                    /\ out[k] = in[i]
                    /\ Cardinality({j \in Passing : j < i}) = k - 1
            /\ \A i \in 1..Len(in) :
                /\ (Truthy(a) /\ Len(extract_names(in[i].assignee)
                                        \o extract_names(in[i].created_by)) = 0)
                        => i \notin Passing
                /\ (Truthy(s) /\ Len(extract_names(in[i].status)) = 0) => i \notin Passing
            /\ (~Truthy(a) /\ ~Truthy(s)) =>
                /\ out = in
                /\ fetch_process_node([EmptyState EXCEPT !.assignee = a, !.status = s],
                                      [kind |-> "ok", data |-> in]).api_data = in

C20_Witness ==
    /\ probe.called
    /\ Truthy(probe.assignee_name)
    /\ Truthy(probe.status_name)
    /\ Len(probe.tickets) = 2
    /\ Len(probe.result) = 1
    /\ probe.result[1] = probe.tickets[2]
    /\ Len(extract_names(probe.tickets[1].status)) = 0

\* The offset the router of this invocation resolved.
RouterOffset ==
    IF response.kind = "object"
    THEN NewOffset(current_offset, ReplyPage, ReplyAction)
    ELSE 0

\* C16: each pass through the processor loop adds 1 to recursion_count and
\* one page to the offset, so the k-th re-fetch sees recursion_count = k and
\* no two fetches of a turn ask for the same offset.
C16_LoopAdvances ==
    /\ \A i \in 1..Len(fetches) :
        /\ fetches[i].count = i - 1
        /\ \A j \in 1..Len(fetches) : i # j => fetches[i].offset # fetches[j].offset
    /\ (pc = "processor" /\ Len(fetches) > 0) =>
        /\ st.recursion_count = Len(fetches)
        /\ Offset = fetches[Len(fetches)].offset + PageSize

\* C17: after a fetch the turn goes to the responder exactly when the result
\* is non-empty, the mode is not deep_scan or recursion_count is at least 5,
\* and back to the processor otherwise; decision_logic and the stop test of
\* check_results_node give the same decision for every result, mode and count.
C17_DecisionAgrees ==
    /\ (Len(fetches) > 0 /\ pc \in {"processor", "rephrase"}) =>
        (pc = "rephrase" <=> CheckResultsStops(st))
    /\ \A c \in 0..(ScanBudget + 1), m \in SearchModes, d \in Pages :
        LET s == [st EXCEPT !.recursion_count = c,
                            !.search_mode = GetOr(m, JStr("single_page")),
                            !.api_data = d]
        IN  /\ decision_logic(s) = "rephrase" <=> CheckResultsStops(s)
            /\ decision_logic(s) = "rephrase" <=>
                (Len(d) > 0 \/ s.search_mode # JStr("deep_scan") \/ c >= ScanBudget)

C17_Witness ==
    /\ pc = "processor"
    /\ Len(fetches) > 0
    /\ ~CheckResultsStops(st)
    /\ decision_logic(st) = "loop"

\* C18: in a turn whose mode is not deep_scan one fetch is made, at the
\* offset the router resolved; the turn is then at the responder, and the
\* offset and recursion_count of the state are as the router left them.
C18_SinglePageOneFetch ==
    (RouterRan /\ st.search_mode # JStr("deep_scan") /\ Len(fetches) > 0) =>
        /\ Len(fetches) = 1
        /\ fetches[1].offset = RouterOffset
        /\ pc \in {"rephrase", "done"}
        /\ Offset = RouterOffset
        /\ st.recursion_count = 0

\* C19: the first fetch of a deep_scan turn asks for offset 0 whatever the
\* router resolved, and the executor writes api_data only: the offset of
\* the state stays the one the router resolved.
C19_DeepScanResetIsLocal ==
    /\ (RouterRan /\ st.search_mode = JStr("deep_scan") /\ Len(fetches) > 0) =>
        /\ fetches[1].offset = 0
        /\ fetches[1].count = 0
        /\ Offset = RouterOffset
    /\ \A api \in ApiOutcomes :
        api.kind # "raise" => fetch_process_node(st, api).keys = {"api_data"}

C19_Witness ==
    /\ st.search_mode = JStr("deep_scan")
    /\ Len(fetches) = 1
    /\ pc \in {"processor", "rephrase"}
    /\ RouterOffset = 2 * PageSize
    /\ fetches[1].offset = 0
    /\ Offset = 2 * PageSize

\* C21: the state of a thread id carries over from one run_chat to the next:
\* when a turn starts after a finished one, every thread id that has a
\* resolved offset keeps it, the thread being served (so that its router
\* sees the offset the turn before resolved) and every other thread alike.
C21_ThreadContinuity ==
    [][(pc = "done" /\ pc' = "router") =>
        \A t \in Tids :
            "page_params" \in saver[t].keys =>
                /\ "page_params" \in saver'[t].keys
                /\ saver'[t].page_params = saver[t].page_params]_vars

\* The page list_tickets asks the collaborator API for in the i-th fetch.
PageAsked(i) == PageOf(fetches[i].offset, 20)

\* C22: the page asked of the API is offset // 20 + 1 and undoes the
\* resolver: a turn with an explicit target page P >= 1 asks for page P,
\* and for the offset of the state and of every fetch the page is at least
\* 1 with (page - 1) * 20 equal to the offset.
C22_PageRoundTrip ==
    /\ \A P \in 1..MaxTargetPage, a \in Actions :
        PageOf(NewOffset(current_offset, JInt(P), Get(a)), 20) = P
    /\ "page_params" \in st.keys =>
        /\ PageOf(Offset, 20) >= 1
        /\ (PageOf(Offset, 20) - 1) * PageSize = Offset
    /\ \A i \in 1..Len(fetches) :
        /\ PageAsked(i) >= 1
        /\ (PageAsked(i) - 1) * PageSize = fetches[i].offset
        /\ ExplicitPage => PageAsked(i) = ReplyPage.n

=============================================================================
